---- MODULE Spec2Model ----
(***************************************************************************)
(* A model of the hiking agent's data layer: the park and trail fetchers   *)
(* of parks.py (source routing, the Registry pass-through, the Community   *)
(* Map mirror loop and normalisation), the weather fetcher and the         *)
(* daylight summary of weather.py, and the park/trail gathering step of    *)
(* main.py.                                                                *)
(*                                                                         *)
(* Every fetch function is an operator that takes its arguments and `env`, *)
(* the sequence of responses the network gives to the successive HTTP      *)
(* requests of the call, and yields [ret, net, source]: the value returned *)
(* (or the exception that escapes), the requests issued in order, and the  *)
(* branch of the router taken.  An action is one call of a public function *)
(* and records the call in the state.                                      *)
(*                                                                         *)
(* Python values are tagged records.  A text (a name, a title) is a tuple  *)
(* of one-character strings, so that lower(), replace() and the substring  *)
(* test are computed.  None for a code or a key is the string NONE.        *)
(* response.json() on a body that is not JSON raises                       *)
(* requests.exceptions.JSONDecodeError, a RequestException (requests 2.27  *)
(* and later).                                                             *)
(***************************************************************************)
EXTENDS Integers, Sequences, FiniteSets, TLC

VARIABLES
    op,      \* the function called last ("idle" before any call)
    args,    \* its arguments
    ret,     \* what it returned: [kind |-> "None" | "value" | "raised", ...]
    net,     \* the HTTP requests it issued, in order
    source,  \* the router's branch: "CommunityMap", "Registry" or "n/a"
    prev,    \* main's preceding get_parks call, while main fetches trails
    default_messages   \* the list that is query_model's default for `messages`

vars == <<op, args, ret, net, source, prev, default_messages>>

NONE == "<None>"

-----------------------------------------------------------------------------
(* Python values met as coordinates.                                       *)

PyNone == [t |-> "none", n |-> 0]
PyNum(n) == [t |-> "num", n |-> n]
\* a string spelling the number n, such as "45"
PyNumStr(n) == [t |-> "numstr", n |-> n]
\* a string that spells no number, such as "abc"
PyText == [t |-> "str", n |-> 0]
\* the empty string
PyEmpty == [t |-> "empty", n |-> 0]
PyNaN == [t |-> "nan", n |-> 0]
\* a Python int beyond the range of a float, such as 10**400
PyBigInt == [t |-> "bigint", n |-> 0]

\* float(x): the float, or the exception float() raises.
float(x) ==
    CASE x.t = "num" -> [exc |-> "", v |-> x]
      [] x.t = "numstr" -> [exc |-> "", v |-> PyNum(x.n)]
      [] x.t = "nan" -> [exc |-> "", v |-> x]
      [] x.t \in {"str", "empty"} -> [exc |-> "ValueError", v |-> x]
      [] x.t = "none" -> [exc |-> "TypeError", v |-> x]
      [] x.t = "bigint" -> [exc |-> "OverflowError", v |-> x]

\* lo <= v <= hi on floats: every comparison with NaN is false.
Between(lo, v, hi) == v.t = "num" /\ lo <= v.n /\ v.n <= hi

\* str(x) of a coordinate value.
str(x) ==
    CASE x.t = "num" -> PyNumStr(x.n)
      [] x.t = "none" -> PyText
      [] OTHER -> x

\* The entry guard shared, line for line, by the three coordinate-taking
\* fetchers: "ok", "None" (return None) or the name of the exception that
\* the except clause (ValueError, TypeError) does not catch.
CoordinateGuard(latitude, longitude) ==
    LET la == float(latitude)
        lo == float(longitude)
    IN  IF la.exc # ""
        THEN (IF la.exc \in {"ValueError", "TypeError"} THEN "None" ELSE la.exc)
        ELSE IF lo.exc # ""
        THEN (IF lo.exc \in {"ValueError", "TypeError"} THEN "None" ELSE lo.exc)
        ELSE IF ~Between(-90, la.v, 90) \/ ~Between(-180, lo.v, 180)
        THEN "None"
        ELSE "ok"

-----------------------------------------------------------------------------
(* Return values, requests and responses.                                  *)

RetNone == [kind |-> "None"]
RetValue(v) == [kind |-> "value", val |-> v]
RetRaised(e) == [kind |-> "raised", exc |-> e]

Outcome(r, n, s) == [ret |-> r, net |-> n, source |-> s]

\* A JSON value at the top level of a body: `truthy` is Python's truth of it,
\* `elements` what an object's "elements" key holds (Overpass), `data` the
\* list under its "data" key (the Registry's shape, and the adapters' own).
NoElements == [e |-> "missing", items |-> <<>>]
JsonScalar(truthy) == [shape |-> "scalar", truthy |-> truthy,
                       elements |-> NoElements, data |-> <<>>]
JsonList(truthy) == [shape |-> "list", truthy |-> truthy,
                     elements |-> NoElements, data |-> <<>>]
JsonEmptyObject == [shape |-> "object", truthy |-> FALSE,
                    elements |-> NoElements, data |-> <<>>]
\* an object with some key; e says what its "elements" key holds
JsonObject(e, items) == [shape |-> "object", truthy |-> TRUE,
                         elements |-> [e |-> e, items |-> items], data |-> <<>>]
\* {'data': list}
JsonData(list) == [shape |-> "object", truthy |-> TRUE,
                   elements |-> NoElements, data |-> list]

\* What one HTTP attempt ends in: a connection error or timeout, a non-2xx
\* status (raise_for_status), a 2xx body that is not JSON, or a JSON body.
ConnError == [k |-> "conn_error", body |-> JsonScalar(FALSE)]
HttpError == [k |-> "http_error", body |-> JsonScalar(FALSE)]
BadJson == [k |-> "bad_json", body |-> JsonScalar(FALSE)]
Json(body) == [k |-> "json", body |-> body]

\* One request of a call with what it ended in.
Request(method, url, api_key, resp) ==
    [method |-> method, url |-> url, api_key |-> api_key, resp |-> resp]

Failures == {ConnError, HttpError, BadJson}

\* requests.exceptions.RequestException is raised by the attempt.
RaisesRequestException(resp) == resp.k \in {"conn_error", "http_error", "bad_json"}

-----------------------------------------------------------------------------
(* Texts: tuples of one-character strings.                                 *)

UpperCase == <<"A","B","C","D","E","F","G","H","I","J","K","L","M",
               "N","O","P","Q","R","S","T","U","V","W","X","Y","Z">>
LowerCase == <<"a","b","c","d","e","f","g","h","i","j","k","l","m",
               "n","o","p","q","r","s","t","u","v","w","x","y","z">>

LowerChar(c) ==
    IF \E i \in 1..26 : UpperCase[i] = c
    THEN LowerCase[CHOOSE i \in 1..26 : UpperCase[i] = c]
    ELSE c

UpperChar(c) ==
    IF \E i \in 1..26 : LowerCase[i] = c
    THEN UpperCase[CHOOSE i \in 1..26 : LowerCase[i] = c]
    ELSE c

\* s.lower() and s.upper()
lower(s) == [i \in 1..Len(s) |-> LowerChar(s[i])]
upper(s) == [i \in 1..Len(s) |-> UpperChar(s[i])]

\* s.replace(c, '') for a one-character c
RECURSIVE Remove(_, _)
Remove(s, c) ==
    IF s = <<>> THEN <<>>
    ELSE IF Head(s) = c THEN Remove(Tail(s), c)
    ELSE <<Head(s)>> \o Remove(Tail(s), c)

\* s[:n]
Take(s, n) == SubSeq(s, 1, IF Len(s) < n THEN Len(s) ELSE n)

\* kw in s
Contains(s, kw) ==
    \E i \in 1..(Len(s) - Len(kw) + 1) : SubSeq(s, i, i + Len(kw) - 1) = kw

-----------------------------------------------------------------------------
(* Registry adapter and weather fetcher: one GET, the body passed through. *)

NpsParksUrl == "https://developer.nps.gov/api/v1/parks"
NpsThingsToDoUrl == "https://developer.nps.gov/api/v1/thingstodo"
OpenMeteoUrl == "https://api.open-meteo.com/v1/forecast"

get_parks_us(api_key, state_code, env) ==
    LET resp == env[1]
        reqs == <<Request("GET", NpsParksUrl, api_key, resp)>>
    IN  IF RaisesRequestException(resp)
        THEN Outcome(RetNone, reqs, "Registry")
        ELSE Outcome(RetValue(resp.body), reqs, "Registry")

get_trails_us(api_key, park_code, env) ==
    LET resp == env[1]
        reqs == <<Request("GET", NpsThingsToDoUrl, api_key, resp)>>
    IN  IF RaisesRequestException(resp)
        THEN Outcome(RetNone, reqs, "Registry")
        ELSE Outcome(RetValue(resp.body), reqs, "Registry")

get_weather(latitude, longitude, env) ==
    LET guard == CoordinateGuard(latitude, longitude)
        resp == env[1]
        reqs == <<Request("GET", OpenMeteoUrl, "", resp)>>
    IN  IF guard = "None" THEN Outcome(RetNone, <<>>, "n/a")
        ELSE IF guard # "ok" THEN Outcome(RetRaised(guard), <<>>, "n/a")
        \* RequestException and ValueError are both caught
        ELSE IF RaisesRequestException(resp) THEN Outcome(RetNone, reqs, "n/a")
        ELSE Outcome(RetValue(resp.body), reqs, "n/a")

-----------------------------------------------------------------------------
(* Community Map payloads (Overpass JSON).                                 *)

NameMissing == [m |-> "missing", s |-> <<>>]
NameNull == [m |-> "null", s |-> <<>>]
NameText(s) == [m |-> "text", s |-> s]
\* a truthy value that is not a string, such as 5 or ["x"]
NameNonText == [m |-> "nontext", s |-> <<>>]

NoText == [m |-> "missing", s |-> <<>>]
SomeText(s) == [m |-> "text", s |-> s]

TagsMissing == [g |-> "missing", name |-> NameMissing,
                description |-> NoText, wikipedia |-> NoText]
TagsNonDict == [g |-> "nondict", name |-> NameMissing,
                description |-> NoText, wikipedia |-> NoText]
Tags(name, description, wikipedia) ==
    [g |-> "dict", name |-> name, description |-> description, wikipedia |-> wikipedia]

CenterMissing == [c |-> "missing", lat |-> PyNone, lon |-> PyNone]
CenterNonDict == [c |-> "nondict", lat |-> PyNone, lon |-> PyNone]
\* a key that is missing reads as None through .get()
Center(lat, lon) == [c |-> "dict", lat |-> lat, lon |-> lon]

ElementNonDict == [e |-> "nondict", tags |-> TagsMissing, center |-> CenterMissing,
                   lat |-> PyNone, lon |-> PyNone]
Element(tags, center, lat, lon) ==
    [e |-> "dict", tags |-> tags, center |-> center, lat |-> lat, lon |-> lon]

\* tags.get(key, default) on a text-valued tag
TagOr(tag, default) == IF tag.m = "text" THEN tag.s ELSE default

-----------------------------------------------------------------------------
(* Community Map adapter: the mirror loop and the two normalisations.      *)

overpass_servers == <<"https://overpass-api.de/api/interpreter",
                      "https://overpass.kumi.systems/api/interpreter">>

\* the loop, going on to the next mirror also after a JSON body that is
\* empty (falsy)
RECURSIVE MirrorLoop_RetryOnEmpty(_, _, _)
MirrorLoop_RetryOnEmpty(i, env, reqs) ==
    IF i > Len(overpass_servers)
    THEN [returned |-> FALSE, got |-> FALSE, data |-> JsonScalar(FALSE), net |-> reqs]
    ELSE LET overpass_url == overpass_servers[i]
             sent == Append(reqs, Request("POST", overpass_url, "", env[i]))
         IN  IF RaisesRequestException(env[i]) \/ ~env[i].body.truthy
             THEN IF overpass_url = overpass_servers[Len(overpass_servers)]
                  THEN [returned |-> TRUE, got |-> FALSE,
                        data |-> JsonScalar(FALSE), net |-> sent]
                  ELSE MirrorLoop_RetryOnEmpty(i + 1, env, sent)
             ELSE [returned |-> FALSE, got |-> TRUE, data |-> env[i].body, net |-> sent]

\* The loop over the mirrors, from mirror i on: env[i] is what the attempt
\* on mirror i ends in.  `returned` says the loop returned None itself.
RECURSIVE MirrorLoop(_, _, _)
MirrorLoop(i, env, reqs) ==
    IF i > Len(overpass_servers)
    THEN [returned |-> FALSE, got |-> FALSE, data |-> JsonScalar(FALSE), net |-> reqs]
    ELSE LET overpass_url == overpass_servers[i]
             sent == Append(reqs, Request("POST", overpass_url, "", env[i]))
         IN  IF RaisesRequestException(env[i])
             THEN IF overpass_url = overpass_servers[Len(overpass_servers)]
                  THEN [returned |-> TRUE, got |-> FALSE,
                        data |-> JsonScalar(FALSE), net |-> sent]
                  ELSE MirrorLoop(i + 1, env, sent)
             ELSE [returned |-> FALSE, got |-> TRUE, data |-> env[i].body, net |-> sent]

\* data.get('elements', []) as the loop iterates it: the dicts and non-dicts
\* of a list; the characters of a string and the keys of an object are
\* non-dict items; None and a number cannot be iterated (TypeError).
IterRaises(data) == data.elements.e \in {"null", "number"}
IterItems(data) ==
    CASE data.elements.e = "list" -> data.elements.items
      [] data.elements.e \in {"string", "object"} -> <<ElementNonDict>>
      [] OTHER -> <<>>

\* park_name.replace(' ', '').replace("'", "")[:10].upper()
ParkCodeLen == 10
parkCode(park_name) == upper(Take(Remove(Remove(park_name, " "), "'"), ParkCodeLen))

\* One pass of the parks loop body: "continue", "raise" (an exception the
\* enclosing try catches) or "append".
ParkStep(element) ==
    IF element.e # "dict" \/ element.tags.g = "missing" THEN "continue"
    ELSE IF element.tags.g # "dict" THEN "raise"           \* tags.get on a non-dict
    ELSE IF element.tags.name.m \in {"missing", "null"} THEN "continue"
    ELSE IF element.tags.name.m = "text" /\ element.tags.name.s = <<>> THEN "continue"
    ELSE IF element.center.c = "nondict" THEN "raise"      \* element['center'].get
    ELSE LET lat == IF element.center.c = "dict" THEN element.center.lat ELSE element.lat
             lon == IF element.center.c = "dict" THEN element.center.lon ELSE element.lon
         IN  IF lat.t = "none" \/ lon.t = "none" THEN "continue"
             ELSE IF element.tags.name.m # "text" THEN "raise"   \* park_name.replace
             ELSE "append"

\* the record built from the element's own lat/lon, its center left aside
ParkRecord_OwnPlace(element) ==
    [fullName |-> element.tags.name.s,
     parkCode |-> parkCode(element.tags.name.s),
     latitude |-> str(element.lat),
     longitude |-> str(element.lon),
     description |-> TagOr(element.tags.description,
                           TagOr(element.tags.wikipedia, <<>>))]

ParkRecord(element) ==
    LET lat == IF element.center.c = "dict" THEN element.center.lat ELSE element.lat
        lon == IF element.center.c = "dict" THEN element.center.lon ELSE element.lon
    IN  [fullName |-> element.tags.name.s,
         parkCode |-> parkCode(element.tags.name.s),
         latitude |-> str(lat),
         longitude |-> str(lon),
         description |-> TagOr(element.tags.description,
                               TagOr(element.tags.wikipedia, <<>>))]

RECURSIVE ParksLoop(_, _)
ParksLoop(items, parks) ==
    IF items = <<>> THEN [raised |-> FALSE, list |-> parks]
    ELSE LET step == ParkStep(Head(items))
         IN  IF step = "raise" THEN [raised |-> TRUE, list |-> parks]
             ELSE IF step = "continue" THEN ParksLoop(Tail(items), parks)
             ELSE ParksLoop(Tail(items), Append(parks, ParkRecord(Head(items))))

\* the parks normalisation without its except clause
ParksOfPayload_NoExcept(data) ==
    IF IterRaises(data) THEN RetRaised("TypeError")
    ELSE LET r == ParksLoop(IterItems(data), <<>>)
         IN  IF r.raised THEN RetRaised("AttributeError")
             ELSE IF r.list = <<>> THEN RetNone
             ELSE RetValue(JsonData(r.list))

\* The try block after the mirror loop: `except Exception` turns whatever is
\* raised into None.
ParksOfPayload(data) ==
    IF IterRaises(data) THEN RetNone
    ELSE LET r == ParksLoop(IterItems(data), <<>>)
         IN  IF r.raised THEN RetNone
             ELSE IF r.list = <<>> THEN RetNone
             ELSE RetValue(JsonData(r.list))

get_parks_canada(latitude, longitude, province, env) ==
    LET guard == CoordinateGuard(latitude, longitude)
    IN  IF guard = "None" THEN Outcome(RetNone, <<>>, "CommunityMap")
        ELSE IF guard # "ok" THEN Outcome(RetRaised(guard), <<>>, "CommunityMap")
        ELSE LET m == MirrorLoop(1, env, <<>>)
             IN  IF m.returned THEN Outcome(RetNone, m.net, "CommunityMap")
                 ELSE IF ~m.data.truthy \/ m.data.shape # "object"
                 THEN Outcome(RetNone, m.net, "CommunityMap")
                 ELSE Outcome(ParksOfPayload(m.data), m.net, "CommunityMap")

TrailKeywords == {<<"t","r","a","i","l">>, <<"h","i","k","i","n","g">>,
                  <<"h","i","k","e">>, <<"l","o","o","p">>, <<"t","r","a","c","k">>}

MaxTrails == 20

\* the keyword test that lets every name through
KeywordMatch_AnyName(trail_name) == TRUE

\* any(keyword in trail_lower for keyword in [...])
KeywordMatch(trail_name) == \E keyword \in TrailKeywords : Contains(lower(trail_name), keyword)

\* One pass of the trails loop body, given the names seen so far.
TrailStep(element, seen_trails) ==
    IF element.e # "dict" \/ element.tags.g = "missing" THEN "continue"
    ELSE IF element.tags.g # "dict" THEN "raise"
    ELSE IF element.tags.name.m \in {"missing", "null"} THEN "continue"
    ELSE IF element.tags.name.m = "text" /\ element.tags.name.s = <<>> THEN "continue"
    ELSE IF element.tags.name.m # "text" THEN "raise"      \* `in` on a set, or .lower()
    ELSE IF element.tags.name.s \in seen_trails THEN "continue"
    ELSE IF KeywordMatch(element.tags.name.s) THEN "append"
    ELSE "continue"

TrailRecord(element) ==
    [title |-> element.tags.name.s,
     tags |-> <<"hiking", "trail">>,
     description |-> TagOr(element.tags.description, <<>>)]

\* the trails loop, leaving the loop only once the list is longer than the cap
RECURSIVE TrailsLoop_LateBreak(_, _, _)
TrailsLoop_LateBreak(items, trails, seen_trails) ==
    IF items = <<>> THEN [raised |-> FALSE, list |-> trails]
    ELSE LET step == TrailStep(Head(items), seen_trails)
         IN  IF step = "raise" THEN [raised |-> TRUE, list |-> trails]
             ELSE IF step = "continue"
             THEN TrailsLoop_LateBreak(Tail(items), trails, seen_trails)
             ELSE LET grown == Append(trails, TrailRecord(Head(items)))
                  IN  IF Len(grown) > MaxTrails
                      THEN [raised |-> FALSE, list |-> grown]
                      ELSE TrailsLoop_LateBreak(Tail(items), grown,
                                                seen_trails \cup {Head(items).tags.name.s})

RECURSIVE TrailsLoop(_, _, _)
TrailsLoop(items, trails, seen_trails) ==
    IF items = <<>> THEN [raised |-> FALSE, list |-> trails]
    ELSE LET step == TrailStep(Head(items), seen_trails)
         IN  IF step = "raise" THEN [raised |-> TRUE, list |-> trails]
             ELSE IF step = "continue" THEN TrailsLoop(Tail(items), trails, seen_trails)
             ELSE LET grown == Append(trails, TrailRecord(Head(items)))
                  IN  IF Len(grown) >= MaxTrails
                      THEN [raised |-> FALSE, list |-> grown]     \* break
                      ELSE TrailsLoop(Tail(items), grown,
                                      seen_trails \cup {Head(items).tags.name.s})

TrailsOfPayload(data) ==
    IF IterRaises(data) THEN RetNone
    ELSE LET r == TrailsLoop(IterItems(data), <<>>, {})
         IN  IF r.raised THEN RetNone
             ELSE IF r.list = <<>> THEN RetNone
             ELSE RetValue(JsonData(r.list))

get_trails_canada(park_lat, park_lon, park_name, env) ==
    LET guard == CoordinateGuard(park_lat, park_lon)
    IN  IF guard = "None" THEN Outcome(RetNone, <<>>, "CommunityMap")
        ELSE IF guard # "ok" THEN Outcome(RetRaised(guard), <<>>, "CommunityMap")
        ELSE LET m == MirrorLoop(1, env, <<>>)
             IN  IF m.returned THEN Outcome(RetNone, m.net, "CommunityMap")
                 ELSE IF ~m.data.truthy \/ m.data.shape # "object"
                 THEN Outcome(RetNone, m.net, "CommunityMap")
                 ELSE Outcome(TrailsOfPayload(m.data), m.net, "CommunityMap")

-----------------------------------------------------------------------------
(* The router.                                                             *)

us_states == {"AL", "AK", "AZ", "AR", "CA", "CO", "CT", "DE", "FL", "GA", "HI",
              "ID", "IL", "IN", "IA", "KS", "KY", "LA", "ME", "MD", "MA", "MI",
              "MN", "MS", "MO", "MT", "NE", "NV", "NH", "NJ", "NM", "NY", "NC",
              "ND", "OH", "OK", "OR", "PA", "RI", "SC", "SD", "TN", "TX", "UT",
              "VT", "VA", "WA", "WV", "WI", "WY", "DC"}

\* `not api_key`
NoKey(api_key) == api_key \in {"", NONE}

\* the router without the test for the country 'US'
ParksViaCommunityMap_NoUsTest(state_code, country) ==
    country = "CA" \/ state_code \notin us_states

\* The condition of line 35: the Community Map branch is taken.
ParksViaCommunityMap(state_code, country) ==
    country = "CA" \/ (country # "US" /\ state_code \notin us_states)

get_parks(api_key, state_code, country, latitude, longitude, env) ==
    IF ParksViaCommunityMap(state_code, country)
    THEN IF latitude.t = "none" \/ longitude.t = "none"
         THEN Outcome(RetNone, <<>>, "CommunityMap")
         ELSE get_parks_canada(latitude, longitude, state_code, env)
    ELSE IF NoKey(api_key)
         THEN Outcome(RetNone, <<>>, "Registry")
         ELSE get_parks_us(api_key, state_code, env)

\* The condition of line 197.
TrailsViaCommunityMap(country) == country = "CA"

get_trails(api_key, park_code, country, park_lat, park_lon, park_name, env) ==
    IF TrailsViaCommunityMap(country)
    THEN get_trails_canada(park_lat, park_lon, park_name, env)
    ELSE get_trails_us(api_key, park_code, env)

-----------------------------------------------------------------------------
(* main's park and trail gathering (Step 2).                               *)

\* Python's truth of a coordinate value read from a park record.
Truthy(x) == x.t \notin {"none", "empty"} /\ ~(x.t = "num" /\ x.n = 0)

\* float(park.get(k, 0)) if park.get(k) else None, inside
\* try ... except (ValueError, TypeError): both coordinates become None.
ParkCoordinates(park) ==
    LET la == IF Truthy(park.latitude) THEN float(park.latitude)
              ELSE [exc |-> "", v |-> PyNone]
        lo == IF Truthy(park.longitude) THEN float(park.longitude)
              ELSE [exc |-> "", v |-> PyNone]
    IN  IF la.exc # "" \/ lo.exc # ""
        THEN [park_lat |-> PyNone, park_lon |-> PyNone]
        ELSE [park_lat |-> la.v, park_lon |-> lo.v]

\* The call of line 247 for one park of the list.
main_get_trails(api_key, country, park, env) ==
    LET c == ParkCoordinates(park)
    IN  get_trails(api_key, park.parkCode, country, c.park_lat, c.park_lon,
                   park.fullName, env)

-----------------------------------------------------------------------------
(* The inputs the calls are drawn from.                                    *)

\* the longest "elements" list of a payload given to an adapter called directly
MaxElems == 2
\* the same for a fetch that goes through the router
MaxElemsRouted == 1

Latitudes == {PyNum(-91), PyNum(-90), PyNum(90), PyNum(91), PyNumStr(45),
              PyNone, PyText, PyNaN, PyBigInt}
Longitudes == {PyNum(-181), PyNum(-180), PyNum(180), PyNum(181), PyNone, PyText}

\* the sequences over S of length at most n
SeqsUpTo(S, n) == UNION {[1..k -> S] : k \in 0..n}

\* bodies that are no object with an "elements" list
OddBodies ==
    { JsonScalar(FALSE), JsonScalar(TRUE), JsonList(FALSE), JsonList(TRUE),
      JsonEmptyObject, JsonObject("missing", <<>>), JsonObject("null", <<>>),
      JsonObject("number", <<>>), JsonObject("string", <<>>), JsonObject("object", <<>>) }

OverpassBodies(elems, n) == {JsonObject("list", items) : items \in SeqsUpTo(elems, n)}

\* What the network gives to the requests of one call, in order: the mirror
\* loop stops at the first JSON body, so what follows one is never read.
Envs(bodies) ==
    {<<Json(b), ConnError>> : b \in bodies}
        \cup {<<f, r>> : f \in Failures, r \in Failures \cup {Json(b) : b \in bodies}}

NpsParkBodies ==
    LET NpsPark(fullName, code, lat, lon) ==
            [fullName |-> fullName, parkCode |-> code, latitude |-> lat, longitude |-> lon,
             description |-> <<>>]
    IN
    { JsonData(<<NpsPark(<<"Y","o","s","e","m","i","t","e">>, <<"y","o","s","e">>, PyNumStr(37), PyNumStr(-119))>>),
      JsonData(<<NpsPark(<<"A","l","c","a","t","r","a","z">>, <<"a","l","c","a">>, PyEmpty, PyEmpty)>>),
      JsonData(<<NpsPark(<<>>, <<"x","x","x","x">>, PyNumStr(37), PyNumStr(-119))>>),
      JsonData(<<NpsPark(<<"N","o","w","h","e","r","e">>, <<"n","o","w","h">>, PyNumStr(999), PyNumStr(-119))>>),
      JsonData(<<>>) }

NpsTrailBodies ==
    { JsonData(<<[title |-> <<"M","i","s","t"," ","T","r","a","i","l">>, tags |-> <<"hiking">>, description |-> <<>>]>>),
      JsonData(<<[title |-> <<"T","i","o","g","a"," ","R","o","a","d">>, tags |-> <<"driving">>, description |-> <<>>]>>),
      JsonData(<<>>) }

ParkEnvs ==
    LET ParkElements ==
            { ElementNonDict,
              Element(TagsMissing, CenterMissing, PyNum(51), PyNum(-115)),
              Element(TagsNonDict, CenterMissing, PyNum(51), PyNum(-115)),
              Element(Tags(NameMissing, NoText, NoText), Center(PyNum(51), PyNum(-115)), PyNone, PyNone),
              Element(Tags(NameText(<<>>), NoText, NoText), Center(PyNum(51), PyNum(-115)), PyNone, PyNone),
              Element(Tags(NameNonText, NoText, NoText), Center(PyNum(51), PyNum(-115)), PyNone, PyNone),
              Element(Tags(NameText(<<"B","a","n","f","f">>), SomeText(<<"R","o","c","k","y">>), NoText),
                      Center(PyNum(51), PyNum(-115)), PyNone, PyNone),
              Element(Tags(NameText(<<"J","a","s","p","e","r">>), NoText, SomeText(<<"e","n",":","J","a","s","p","e","r">>)),
                      CenterMissing, PyNum(52), PyNum(-117)),
              Element(Tags(NameText(<<"Y","o","h","o">>), NoText, NoText), Center(PyNum(999), PyNum(0)), PyNone, PyNone),
              Element(Tags(NameText(<<"B","r","u","c","e">>), NoText, NoText), CenterNonDict, PyNum(45), PyNum(-81)),
              Element(Tags(NameText(<<"G","r","o","s"," ","M","o","r","n","e">>), NoText, NoText),
                      Center(PyNone, PyNum(-57)), PyNum(49), PyNum(-57)),
              Element(Tags(NameText(<<"O","'","N","e","i","l"," ","P","a","r","k">>), NoText, NoText), CenterMissing, PyNum(0), PyNum(0)),
              Element(Tags(NameText(<<"K","l","u","a","n","e">>), NoText, NoText), CenterMissing, PyNone, PyNone) }
    IN
    Envs(OddBodies \cup OverpassBodies(ParkElements, MaxElems))
TrailEnvs ==
    LET TrailElements ==
            { ElementNonDict,
              Element(TagsMissing, CenterMissing, PyNone, PyNone),
              Element(TagsNonDict, CenterMissing, PyNone, PyNone),
              Element(Tags(NameMissing, NoText, NoText), CenterMissing, PyNone, PyNone),
              Element(Tags(NameNull, NoText, NoText), CenterMissing, PyNone, PyNone),
              Element(Tags(NameText(<<>>), NoText, NoText), CenterMissing, PyNone, PyNone),
              Element(Tags(NameNonText, NoText, NoText), CenterMissing, PyNone, PyNone),
              Element(Tags(NameText(<<"L","o","o","p"," ","A">>), NoText, NoText), CenterMissing, PyNone, PyNone),
              Element(Tags(NameText(<<"H","I","K","I","N","G"," ","P","a","t","h">>), NoText, NoText), CenterMissing, PyNone, PyNone),
              Element(Tags(NameText(<<"M","a","i","n"," ","R","o","a","d">>), NoText, NoText), CenterMissing, PyNone, PyNone),
              Element(Tags(NameText(<<"R","i","d","g","e"," ","T","r","a","i","l">>), SomeText(<<"s","t","e","e","p">>), NoText),
                      CenterMissing, PyNone, PyNone) }
    IN
    Envs(OddBodies \cup OverpassBodies(TrailElements, MaxElems))
RoutedParkEnvs ==
    LET RoutedParkElements ==
            { Element(Tags(NameText(<<"B","a","n","f","f">>), SomeText(<<"R","o","c","k","y">>), NoText),
                      Center(PyNum(51), PyNum(-115)), PyNone, PyNone),
              Element(Tags(NameText(<<"Y","o","h","o">>), NoText, NoText), Center(PyNum(999), PyNum(0)), PyNone, PyNone),
              Element(Tags(NameText(<<"O","'","N","e","i","l"," ","P","a","r","k">>), NoText, NoText), CenterMissing, PyNum(0), PyNum(0)) }
    IN
    Envs(OverpassBodies(RoutedParkElements, MaxElemsRouted) \cup NpsParkBodies)
RoutedTrailEnvs ==
    LET RoutedTrailElements ==
            { Element(Tags(NameText(<<"L","o","o","p"," ","A">>), NoText, NoText), CenterMissing, PyNone, PyNone),
              Element(Tags(NameText(<<"M","a","i","n"," ","R","o","a","d">>), NoText, NoText), CenterMissing, PyNone, PyNone) }
    IN
    Envs(OverpassBodies(RoutedTrailElements, MaxElemsRouted) \cup NpsTrailBodies)
WeatherEnvs ==
    LET WeatherBodies == {JsonObject("missing", <<>>), JsonEmptyObject, JsonList(TRUE)}
    IN
    Envs(WeatherBodies)

ApiKeys == {"", NONE, "KEY"}
StateCodes == {"CA", "NY", "DC", "ON", NONE}
Countries == {"CA", "US", "MX", NONE}
ParkCodes == {<<"y","o","s","e">>, <<>>}

-----------------------------------------------------------------------------
(* The calls.                                                              *)

NoPrev == [op |-> "none"]

Init ==
    /\ op = "idle"
    /\ args = [none |-> TRUE]
    /\ ret = RetNone
    /\ net = <<>>
    /\ source = "n/a"
    /\ prev = NoPrev
    /\ default_messages = <<>>

Record(o, a, out) ==
    /\ op' = o
    /\ args' = a
    /\ ret' = out.ret
    /\ net' = out.net
    /\ source' = out.source

Call_get_weather ==
    /\ op = "idle"
    /\ \E latitude \in Latitudes, longitude \in Longitudes, env \in WeatherEnvs :
         Record("get_weather", [latitude |-> latitude, longitude |-> longitude],
                get_weather(latitude, longitude, env))
    /\ UNCHANGED <<prev, default_messages>>

Call_get_parks_canada ==
    /\ op = "idle"
    /\ \E latitude \in Latitudes, longitude \in Longitudes, env \in ParkEnvs :
         Record("get_parks_canada", [latitude |-> latitude, longitude |-> longitude],
                get_parks_canada(latitude, longitude, NONE, env))
    /\ UNCHANGED <<prev, default_messages>>

Call_get_trails_canada ==
    /\ op = "idle"
    /\ \E park_lat \in Latitudes, park_lon \in Longitudes, env \in TrailEnvs :
         Record("get_trails_canada", [latitude |-> park_lat, longitude |-> park_lon],
                get_trails_canada(park_lat, park_lon, <<"B","a","n","f","f">>, env))
    /\ UNCHANGED <<prev, default_messages>>

Call_get_parks_us ==
    /\ op = "idle"
    /\ \E api_key \in ApiKeys, state_code \in StateCodes, env \in Envs(NpsParkBodies) :
         Record("get_parks_us", [api_key |-> api_key, state_code |-> state_code],
                get_parks_us(api_key, state_code, env))
    /\ UNCHANGED <<prev, default_messages>>

Call_get_trails_us ==
    /\ op = "idle"
    /\ \E api_key \in ApiKeys, park_code \in ParkCodes, env \in Envs(NpsTrailBodies) :
         Record("get_trails_us", [api_key |-> api_key, park_code |-> park_code],
                get_trails_us(api_key, park_code, env))
    /\ UNCHANGED <<prev, default_messages>>

Call_get_parks ==
    /\ op = "idle"
    /\ \E api_key \in ApiKeys, state_code \in StateCodes, country \in Countries,
          latitude \in {PyNone, PyNum(45)}, longitude \in {PyNone, PyNum(-80)},
          env \in RoutedParkEnvs :
         Record("get_parks",
                [api_key |-> api_key, state_code |-> state_code, country |-> country,
                 latitude |-> latitude, longitude |-> longitude],
                get_parks(api_key, state_code, country, latitude, longitude, env))
    /\ UNCHANGED <<prev, default_messages>>

Call_get_trails ==
    /\ op = "idle"
    /\ \E api_key \in ApiKeys, park_code \in ParkCodes, country \in Countries,
          park_lat \in {PyNone, PyNum(51)}, park_lon \in {PyNone, PyNum(-115)},
          env \in RoutedTrailEnvs :
         Record("get_trails",
                [api_key |-> api_key, park_code |-> park_code, country |-> country,
                 latitude |-> park_lat, longitude |-> park_lon],
                get_trails(api_key, park_code, country, park_lat, park_lon, <<"B","a","n","f","f">>, env))
    /\ UNCHANGED <<prev, default_messages>>

\* main, lines 223-231: the key check and the park fetch for the location
\* the resolver gave.
Main_get_parks ==
    /\ op = "idle"
    /\ \E api_key \in ApiKeys, state \in StateCodes, country \in Countries,
          env \in RoutedParkEnvs :
         LET a == [api_key |-> api_key, state_code |-> state, country |-> country,
                   latitude |-> PyNum(45), longitude |-> PyNum(-80)]
         IN  IF NoKey(api_key)
             THEN Record("main.no_key", a, Outcome(RetNone, <<>>, "n/a"))
             ELSE Record("main.get_parks", a,
                         get_parks(api_key, state, country, a.latitude, a.longitude, env))
    /\ UNCHANGED <<prev, default_messages>>

\* main, lines 232-247: one pass of the loop over the parks found.
Main_get_trails ==
    /\ op = "main.get_parks"
    /\ ret.kind = "value"
    /\ ret.val.shape = "object"
    /\ \E i \in 1..Len(ret.val.data), env \in RoutedTrailEnvs :
         LET park == ret.val.data[i]
         IN  /\ park.fullName # <<>>
             /\ prev' = [op |-> op, country |-> args.country,
                         state_code |-> args.state_code, source |-> source,
                         park |-> park]
             /\ Record("main.get_trails",
                       [api_key |-> args.api_key, country |-> args.country,
                        park |-> park, coordinates |-> ParkCoordinates(park)],
                       main_get_trails(args.api_key, args.country, park, env))
    /\ UNCHANGED default_messages

Next ==
    \/ Call_get_weather
    \/ Call_get_parks_canada
    \/ Call_get_trails_canada
    \/ Call_get_parks_us
    \/ Call_get_trails_us
    \/ Call_get_parks
    \/ Call_get_trails
    \/ Main_get_parks
    \/ Main_get_trails

Spec == Init /\ [][Next]_vars

-----------------------------------------------------------------------------
(* Claims about the fetchers and the router (specification Spec).          *)

CoordinateOps == {"get_parks_canada", "get_trails_canada", "get_weather"}
CommunityOps == {"get_parks_canada", "get_trails_canada"}

\* a coordinate that is a number (or spells one) within lo..hi
NumberWithin(x, lo, hi) == x.t \in {"num", "numstr"} /\ lo <= x.n /\ x.n <= hi
ValidPair(lat, lon) == NumberWithin(lat, -90, 90) /\ NumberWithin(lon, -180, 180)

\* C1: a coordinate-taking fetcher given a latitude outside [-90,90], a
\* longitude outside [-180,180] or a coordinate that is no number returns
\* None and issues no request.
C1_InvalidCoordinatesGiveAbsence ==
    (op \in CoordinateOps /\ ~ValidPair(args.latitude, args.longitude))
        => (ret = RetNone /\ net = <<>>)

\* C2: in main, the trails of a park are fetched from the source the park
\* was fetched from.
C2_TrailsFromTheParksSource ==
    op = "main.get_trails" => source = prev.source

\* the rule as the specification words it
select_source(country_code, region_code) ==
    IF country_code = "CA" THEN "CommunityMap"
    ELSE IF region_code \in us_states \/ country_code = "US" THEN "Registry"
    ELSE "CommunityMap"

TransportFailure(resp) == resp.k \in {"conn_error", "http_error"}

\* what the adapter makes of a JSON body
Normalized(o, body) ==
    IF ~body.truthy \/ body.shape # "object" THEN RetNone
    ELSE IF o = "get_parks_canada" THEN ParksOfPayload(body)
    ELSE TrailsOfPayload(body)

\* the attempts are on the mirrors in list order, one each
InMirrorOrder ==
    /\ Len(net) <= Len(overpass_servers)
    /\ \A k \in 1..Len(net) :
         net[k].method = "POST" /\ net[k].url = overpass_servers[k]

\* the result is the last attempt's: its body normalised, or None when
\* every mirror failed
ResultOfLastAttempt ==
    LET last == net[Len(net)].resp
    IN  IF last.k = "json"
        THEN ret = Normalized(op, last.body)
        ELSE Len(net) = Len(overpass_servers) /\ ret = RetNone

\* C4 as claimed: mirror k+1 is contacted only after a transport failure of
\* mirror k.
C4_AdvanceOnlyOnTransportFailure ==
    (op \in CommunityOps /\ net # <<>>) =>
        /\ InMirrorOrder
        /\ \A k \in 1..(Len(net) - 1) : TransportFailure(net[k].resp)
        /\ ResultOfLastAttempt

\* C4 as amended: mirror k+1 is contacted only after mirror k ended in a
\* transport failure or in a body that is not JSON; the first JSON body ends
\* the loop, empty or not, and is the one normalised; after a failure of
\* every mirror the result is None.
C4_MirrorLoop ==
    (op \in CommunityOps /\ net # <<>>) =>
        /\ InMirrorOrder
        /\ \A k \in 1..(Len(net) - 1) : net[k].resp.k # "json"
        /\ ResultOfLastAttempt

C4_Witness ==
    /\ op = "get_parks_canada"
    /\ Len(net) = 2
    /\ net[1].resp = ConnError
    /\ net[2].resp.k = "json"
    /\ ret.kind = "value"

\* float(s) of a park's coordinate lies within lo..hi
CoordinateWithin(x, lo, hi) == float(x).exc = "" /\ Between(lo, float(x).v, hi)

ParkOps == {"get_parks_canada", "get_parks_us", "get_parks", "main.get_parks"}

\* C6: every park returned has a name and coordinates within range.
C6_ParksAreValid ==
    (op \in ParkOps /\ ret.kind = "value") =>
        \A i \in 1..Len(ret.val.data) :
            /\ ret.val.data[i].fullName # <<>>
            /\ CoordinateWithin(ret.val.data[i].latitude, -90, 90)
            /\ CoordinateWithin(ret.val.data[i].longitude, -180, 180)

\* C7: a Registry fetch without an API key returns None and sends nothing.
C7_NoKeyNoRegistryRequest ==
    (op \in {"get_parks", "get_trails"} /\ source = "Registry" /\ NoKey(args.api_key))
        => (ret = RetNone /\ net = <<>>)

\* C8: whatever body arrives with a successful status, the Community Map
\* fetchers return a list or None: nothing is raised.
C8_NoFaultFromAnyBody ==
    (op \in CommunityOps /\ net # <<>> /\ net[Len(net)].resp.k \in {"json", "bad_json"})
        => ret.kind \in {"None", "value"}

\* a body whose element has tags that are no object
C8_Witness ==
    /\ op = "get_parks_canada"
    /\ net # <<>>
    /\ net[Len(net)].resp.k = "json"
    /\ net[Len(net)].resp.body.elements.e = "list"
    /\ \E i \in 1..Len(net[Len(net)].resp.body.elements.items) :
         net[Len(net)].resp.body.elements.items[i].tags.g = "nondict"
    /\ ret = RetNone

-----------------------------------------------------------------------------
(* Long trail payloads (specification SpecTrails).                         *)

\* the longest "elements" list of a long payload
MaxPayload == 25
\* the number of distinct trail names the payloads draw from
PoolSize == MaxPayload + 4

Numeral(i) ==
    LET DigitChars == <<"0", "1", "2", "3", "4", "5", "6", "7", "8", "9">>
    IN
    <<DigitChars[(i \div 10) + 1], DigitChars[(i % 10) + 1]>>

Named(name) == Element(Tags(NameText(name), NoText, NoText), CenterMissing, PyNone, PyNone)

\* A payload of n elements: the pool's names from `start` on in steps of
\* `step`, every dup-th element repeating the name dup-1 places before it
\* and every noise-th element being one the loop passes over (0: none).
LongItems(n, start, step, dup, noise) ==
    LET KeywordSpellings == <<<<"T","r","a","i","l"," ">>, <<"H","I","K","I","N","G"," ">>, <<"H","i","k","e"," ">>, <<"l","o","o","p"," ">>, <<"T","R","A","C","K"," ">>>>
        \* PoolSize names, pairwise distinct, each holding a keyword in some case
        PoolName(i) == KeywordSpellings[(i % 5) + 1] \o Numeral(i)
        \* elements the trails loop passes over
        Noise(i) ==
            CASE i % 4 = 0 -> Named(<<"R","o","a","d"," ">> \o Numeral(i))
              [] i % 4 = 1 -> Named(<<>>)
              [] i % 4 = 2 -> Element(TagsMissing, CenterMissing, PyNone, PyNone)
              [] OTHER -> ElementNonDict
    IN
    [i \in 1..n |->
        IF noise > 0 /\ i % noise = 0 THEN Noise(i \div noise)
        ELSE IF dup > 0 /\ i % dup = 0
        THEN Named(PoolName((start + (i - (dup - 1)) * step) % PoolSize))
        ELSE Named(PoolName((start + i * step) % PoolSize))]

LongPayloads ==
    { JsonObject("list", LongItems(n, start, step, dup, noise)) :
        n \in 0..MaxPayload, start \in {0, 5}, step \in {1, 3},
        dup \in {0, 2, 3}, noise \in {0, 4, 5} }

Call_get_trails_canada_long ==
    /\ op = "idle"
    /\ \E payload \in LongPayloads :
       \E first \in {ConnError, Json(payload)} :
         Record("get_trails_canada", [latitude |-> PyNum(51), longitude |-> PyNum(-115)],
                get_trails_canada(PyNum(51), PyNum(-115), <<"B","a","n","f","f">>,
                                  <<first, Json(payload)>>))
    /\ UNCHANGED <<prev, default_messages>>

NextTrails == Call_get_trails_canada_long

SpecTrails == Init /\ [][NextTrails]_vars

\* the elements of the body the last attempt received
ReceivedItems == net[Len(net)].resp.body.elements.items

\* the names of the elements that have a non-empty text name holding a keyword
RECURSIVE MatchingNames(_)
MatchingNames(items) ==
    IF items = <<>> THEN <<>>
    ELSE LET e == Head(items)
             named == e.e = "dict" /\ e.tags.g = "dict" /\ e.tags.name.m = "text"
                        /\ e.tags.name.s # <<>>
         IN  (IF named /\ KeywordMatch(e.tags.name.s) THEN <<e.tags.name.s>> ELSE <<>>)
                \o MatchingNames(Tail(items))

\* s without the later occurrences of what occurs in it before
Distinct(s) == SelectSeq([i \in 1..Len(s) |-> [at |-> i, x |-> s[i]]],
                         LAMBDA p : \A j \in 1..(p.at - 1) : s[j] # p.x)
FirstDistinct(s, n) == LET d == Distinct(s) IN [i \in 1..(IF Len(d) < n THEN Len(d) ELSE n) |-> d[i].x]

Titles(list) == [i \in 1..Len(list) |-> list[i].title]

\* C5: the trails returned are the first (at most) 20 distinct
\* keyword-matching names of the payload in encounter order: at most 20,
\* none empty, no two equal; 25 distinct matching names give the first 20.
C5_FirstTwentyDistinct ==
    (op = "get_trails_canada" /\ net # <<>> /\ net[Len(net)].resp.k = "json") =>
        LET names == MatchingNames(ReceivedItems)
            expected == FirstDistinct(names, 20)
        IN  IF ret.kind = "value"
            THEN LET titles == Titles(ret.val.data)
                 IN  /\ titles = expected
                     /\ Len(titles) <= 20
                     /\ \A i \in 1..Len(titles) : titles[i] # <<>>
                     /\ \A i, j \in 1..Len(titles) : titles[i] = titles[j] => i = j
                     /\ (Len(Distinct(names)) >= 25 => Len(titles) = 20)
            ELSE ret = RetNone /\ expected = <<>>

\* 25 distinct matching names were received and the first 20 returned
C5_Witness ==
    /\ op = "get_trails_canada"
    /\ net # <<>>
    /\ net[Len(net)].resp.k = "json"
    /\ Len(Distinct(MatchingNames(ReceivedItems))) = 25
    /\ ret.kind = "value"
    /\ Len(ret.val.data) = 20

-----------------------------------------------------------------------------
(* The daylight summary (weather.py).                                      *)

\* An entry of hourly.time: a string datetime.fromisoformat() parses (to
\* the date and hour it spells; a trailing Z is read as +00:00), a string
\* it rejects, or a value that is no string.
IsoTime(date, hour, z) == [t |-> "iso", date |-> date, hour |-> hour, z |-> z]
BadTime == [t |-> "bad", date |-> 0, hour |-> 0, z |-> FALSE]
NonStrTime == [t |-> "nonstr", date |-> 0, hour |-> 0, z |-> FALSE]

\* An array of hourly: a list, a missing key (read as []) or a value that
\* has no length, such as None.
List(items) == [a |-> "list", items |-> items]
MissingArray == [a |-> "missing", items |-> <<>>]
NonList == [a |-> "nonlist", items |-> <<>>]

\* weather_data: None, an empty dict, a value that is no dict, or a dict
\* whose "hourly" is missing, no dict, or a dict of the four arrays.
WeatherNone == [w |-> "none"]
WeatherEmptyDict == [w |-> "emptydict"]
WeatherNonDict == [w |-> "nondict"]
WeatherNoHourly == [w |-> "dict", hourly |-> "missing"]
WeatherHourlyNonDict == [w |-> "dict", hourly |-> "nondict"]
Weather(time, temperature_2m, precipitation_probability, weathercode) ==
    [w |-> "dict", hourly |-> "dict", time |-> time, temperature_2m |-> temperature_2m,
     precipitation_probability |-> precipitation_probability, weathercode |-> weathercode]

WMO_CODES ==
    [c \in {0, 1, 2, 3, 45, 48, 51, 53, 55, 56, 57, 61, 63, 65, 66, 67, 71, 73, 75,
            77, 80, 81, 82, 85, 86, 95, 96, 99} |->
        CASE c = 0 -> "Clear sky" [] c = 1 -> "Mainly clear"
          [] c = 2 -> "Partly cloudy" [] c = 3 -> "Overcast"
          [] c = 45 -> "Fog" [] c = 48 -> "Depositing rime fog"
          [] c = 51 -> "Light drizzle" [] c = 53 -> "Moderate drizzle"
          [] c = 55 -> "Dense drizzle"
          [] c = 56 -> "Light freezing drizzle" [] c = 57 -> "Dense freezing drizzle"
          [] c = 61 -> "Slight rain" [] c = 63 -> "Moderate rain" [] c = 65 -> "Heavy rain"
          [] c = 66 -> "Light freezing rain" [] c = 67 -> "Heavy freezing rain"
          [] c = 71 -> "Slight snow fall" [] c = 73 -> "Moderate snow fall"
          [] c = 75 -> "Heavy snow fall" [] c = 77 -> "Snow grains"
          [] c = 80 -> "Slight rain showers" [] c = 81 -> "Moderate rain showers"
          [] c = 82 -> "Violent rain showers"
          [] c = 85 -> "Slight snow showers" [] c = 86 -> "Heavy snow showers"
          [] c = 95 -> "Thunderstorm" [] c = 96 -> "Thunderstorm with slight hail"
          [] c = 99 -> "Thunderstorm with heavy hail"]

\* WMO_CODES.get(code, "unknown weather")
Describe(code) == IF code \in DOMAIN WMO_CODES THEN WMO_CODES[code] ELSE "unknown weather"

Fallback == [kind |-> "fallback"]
Forecast(description, avg_temp, max_precip) ==
    [kind |-> "forecast", description |-> description, avg_temp |-> avg_temp,
     max_precip |-> max_precip]

\* the window opening at 9
InDaylight_From9(dt, today) == dt.date = today /\ 9 <= dt.hour /\ dt.hour <= 17

\* the window of the hours on whatever date
InDaylight_AnyDay(dt, today) == 8 <= dt.hour /\ dt.hour <= 17

\* the window with the hour 18 let in
InDaylight_Until18(dt, today) == dt.date = today /\ 8 <= dt.hour /\ dt.hour <= 18

\* dt_obj.date() == today and 8 <= dt_obj.hour <= 17
InDaylight(dt, today) == dt.date = today /\ 8 <= dt.hour /\ dt.hour <= 17

\* i < len(array) and array[i] is not None  (i counts from 1 here)
Present(array, i) == i <= Len(array.items) /\ array.items[i].t # "none"

\* the loop ending in an exception at a time string that does not parse
RECURSIVE DaylightLoop_RaiseOnBad(_, _, _, _)
DaylightLoop_RaiseOnBad(data, today, i, acc) ==
    IF i > Len(data.time.items) THEN acc
    ELSE LET dt_str == data.time.items[i]
         IN  IF dt_str.t = "bad" THEN [acc EXCEPT !.raised = TRUE]
             ELSE IF dt_str.t # "iso" \/ ~InDaylight(dt_str, today)
             THEN DaylightLoop_RaiseOnBad(data, today, i + 1, acc)
             ELSE IF data.temperature_2m.a = "nonlist"
                       \/ data.precipitation_probability.a = "nonlist"
                       \/ data.weathercode.a = "nonlist"
             THEN [acc EXCEPT !.raised = TRUE]
             ELSE DaylightLoop_RaiseOnBad(data, today, i + 1,
                    [raised |-> FALSE,
                     temps |-> IF Present(data.temperature_2m, i)
                               THEN Append(acc.temps, data.temperature_2m.items[i])
                               ELSE acc.temps,
                     precips |-> IF Present(data.precipitation_probability, i)
                                 THEN Append(acc.precips,
                                             data.precipitation_probability.items[i])
                                 ELSE acc.precips,
                     codes |-> IF Present(data.weathercode, i)
                               THEN Append(acc.codes, data.weathercode.items[i])
                               ELSE acc.codes])

\* the loop passing over a sample that lies past the end of one of the arrays
RECURSIVE DaylightLoop_SkipShort(_, _, _, _)
DaylightLoop_SkipShort(data, today, i, acc) ==
    IF i > Len(data.time.items) THEN acc
    ELSE LET dt_str == data.time.items[i]
         IN  IF dt_str.t # "iso" \/ ~InDaylight(dt_str, today)
             THEN DaylightLoop_SkipShort(data, today, i + 1, acc)
             ELSE IF data.temperature_2m.a = "nonlist"
                       \/ data.precipitation_probability.a = "nonlist"
                       \/ data.weathercode.a = "nonlist"
             THEN [acc EXCEPT !.raised = TRUE]
             ELSE IF i > Len(data.temperature_2m.items)
                       \/ i > Len(data.precipitation_probability.items)
                       \/ i > Len(data.weathercode.items)
             THEN DaylightLoop_SkipShort(data, today, i + 1, acc)
             ELSE DaylightLoop_SkipShort(data, today, i + 1,
                    [raised |-> FALSE,
                     temps |-> IF Present(data.temperature_2m, i)
                               THEN Append(acc.temps, data.temperature_2m.items[i])
                               ELSE acc.temps,
                     precips |-> IF Present(data.precipitation_probability, i)
                                 THEN Append(acc.precips,
                                             data.precipitation_probability.items[i])
                                 ELSE acc.precips,
                     codes |-> IF Present(data.weathercode, i)
                               THEN Append(acc.codes, data.weathercode.items[i])
                               ELSE acc.codes])

\* The loop over enumerate(times) from index i on; "raise" is an exception
\* the inner except (ValueError, IndexError) does not catch: len() of an
\* array that has none, met at the first sample in the window.
RECURSIVE DaylightLoop(_, _, _, _)
DaylightLoop(data, today, i, acc) ==
    IF i > Len(data.time.items) THEN acc
    ELSE LET dt_str == data.time.items[i]
         IN  IF dt_str.t # "iso" \/ ~InDaylight(dt_str, today)
             THEN DaylightLoop(data, today, i + 1, acc)
             ELSE IF data.temperature_2m.a = "nonlist"
                       \/ data.precipitation_probability.a = "nonlist"
                       \/ data.weathercode.a = "nonlist"
             THEN [acc EXCEPT !.raised = TRUE]
             ELSE DaylightLoop(data, today, i + 1,
                    [raised |-> FALSE,
                     temps |-> IF Present(data.temperature_2m, i)
                               THEN Append(acc.temps, data.temperature_2m.items[i])
                               ELSE acc.temps,
                     precips |-> IF Present(data.precipitation_probability, i)
                                 THEN Append(acc.precips,
                                             data.precipitation_probability.items[i])
                                 ELSE acc.precips,
                     codes |-> IF Present(data.weathercode, i)
                               THEN Append(acc.codes, data.weathercode.items[i])
                               ELSE acc.codes])

RECURSIVE Sum(_)
Sum(s) == IF s = <<>> THEN 0 ELSE Head(s).n + Sum(Tail(s))

\* the mean cut to the integer below it
RoundHalfEven_Down(p, q) == p \div q

\* round(p / q) for q > 0: to the nearest integer, a half to the even one
RoundHalfEven(p, q) ==
    LET f == p \div q
        r == p % q
    IN  IF 2 * r < q THEN f
        ELSE IF 2 * r > q THEN f + 1
        ELSE IF f % 2 = 0 THEN f ELSE f + 1

\* max(daylight_precip_probs)
Max(s) == CHOOSE m \in {s[i].n : i \in 1..Len(s)} : \A i \in 1..Len(s) : s[i].n <= m

\* collections.Counter(data): the distinct values in the order met, each
\* with its count
RECURSIVE Counter(_, _)
Counter(data, counts) ==
    IF data = <<>> THEN counts
    ELSE LET x == Head(data).n
         IN  IF \E k \in 1..Len(counts) : counts[k].x = x
             THEN Counter(Tail(data),
                          [k \in 1..Len(counts) |->
                              IF counts[k].x = x
                              THEN [x |-> x, count |-> counts[k].count + 1]
                              ELSE counts[k]])
             ELSE Counter(Tail(data), Append(counts, [x |-> x, count |-> 1]))

\* the mode taken to be the first code of the list
mode_FirstElement(data) == data[1].n

\* statistics.mode(data) for data that is not empty: the first of the most
\* common values (Python 3.8 and later)
mode(data) ==
    LET counts == Counter(data, <<>>)
        best == CHOOSE k \in 1..Len(counts) :
                    /\ \A j \in 1..Len(counts) : counts[j].count <= counts[k].count
                    /\ \A j \in 1..(k - 1) : counts[j].count < counts[k].count
    IN  counts[best].x

\* an exception on its way out of the try block
Raising(exc) == [kind |-> "raised", exc |-> exc]

\* The try block, lines 89-126: the sentence's parts, the fallback of line
\* 116, or the exception a statement of the block raises.
SummaryTry(weather_data, today) ==
    IF weather_data.hourly = "nondict" THEN Raising("AttributeError")  \* hourly.get
    ELSE IF weather_data.hourly = "missing" THEN Fallback          \* no times, no temps
    ELSE IF weather_data.time.a = "nonlist" THEN Raising("TypeError")   \* enumerate
    ELSE LET got == DaylightLoop(weather_data, today, 1,
                        [raised |-> FALSE, temps |-> <<>>, precips |-> <<>>, codes |-> <<>>])
         IN  IF got.raised THEN Raising("TypeError")                \* len
             ELSE IF got.temps = <<>> THEN Fallback
             \* statistics.mean of a value that is no number raises TypeError
             ELSE IF \E i \in 1..Len(got.temps) : got.temps[i].t \notin {"num", "nan"}
             THEN Raising("TypeError")
             \* round() of a mean that is NaN raises ValueError
             ELSE IF \E i \in 1..Len(got.temps) : got.temps[i].t = "nan"
             THEN Raising("ValueError")
             ELSE LET avg_temp == RoundHalfEven(Sum(got.temps), Len(got.temps))
                      max_precip == IF got.precips # <<>> THEN Max(got.precips) ELSE 0
                      \* StatisticsError (no data): daylight_codes is empty, so 0
                      most_common_code == IF got.codes # <<>> THEN mode(got.codes) ELSE 0
                  IN  Forecast(Describe(most_common_code), avg_temp, max_precip)

\* the function without its outer except clause
get_todays_weather_summary_NoExcept(weather_data, today) ==
    IF weather_data.w # "dict" THEN Fallback ELSE SummaryTry(weather_data, today)

\* Line 86, then the try block under `except Exception` (lines 127-128).
get_todays_weather_summary(weather_data, today) ==
    IF weather_data.w # "dict" THEN Fallback
    ELSE LET summary == SummaryTry(weather_data, today)
         IN  IF summary.kind = "raised" THEN Fallback ELSE summary

-----------------------------------------------------------------------------
(* The summaries taken (specification SpecWeather).                        *)

\* the longest hourly series
MaxSeries == 3

\* the dates date.today() gives
Days == {2, 3}

Sample(time, temp, precip, code) ==
    [time |-> time, temp |-> temp, precip |-> precip, code |-> code]

\* Hourly samples: on day 2 within the window (the hours 8 and 17 among
\* them), on day 2 outside it, on the days before and after, and with a
\* time that is no timestamp.
Samples ==
    { Sample(IsoTime(2, 8, FALSE), PyNum(10), PyNum(0), PyNum(2)),
      Sample(IsoTime(2, 17, FALSE), PyNum(21), PyNum(40), PyNum(3)),
      Sample(IsoTime(2, 12, TRUE), PyNum(10), PyNone, PyNum(3)),
      Sample(IsoTime(2, 9, FALSE), PyNone, PyNum(40), PyNum(2)),
      Sample(IsoTime(2, 13, FALSE), PyNum(21), PyNum(0), PyNone),
      Sample(IsoTime(2, 10, FALSE), PyNum(-4), PyNum(5), PyNum(4)),
      Sample(IsoTime(2, 7, FALSE), PyNum(21), PyNum(90), PyNum(95)),
      Sample(IsoTime(2, 18, FALSE), PyNum(-4), PyNum(90), PyNum(95)),
      Sample(IsoTime(3, 12, FALSE), PyNum(30), PyNum(90), PyNum(95)),
      Sample(IsoTime(1, 8, TRUE), PyNum(30), PyNum(90), PyNum(95)),
      Sample(BadTime, PyNum(30), PyNum(90), PyNum(95)),
      Sample(NonStrTime, PyNum(30), PyNum(90), PyNum(95)) }

\* The upstream's parallel arrays of the rows, the array named `short`
\* lacking its last entry.
SeriesOf(rows, short) ==
    LET Column(rs, f) == [i \in 1..Len(rs) |-> rs[i][f]]
        \* s without its last element
        Front(s) == SubSeq(s, 1, Len(s) - 1)
    IN
    LET col(field) == IF short = field /\ rows # <<>>
                      THEN Front(Column(rows, field)) ELSE Column(rows, field)
    IN  Weather(List(Column(rows, "time")),
                List(col("temp")), List(col("precip")), List(col("code")))

Series ==
    { SeriesOf(rows, short) :
        rows \in SeqsUpTo(Samples, MaxSeries),
        short \in {"none", "temp", "precip", "code"} }

\* inputs that are no well-formed series
OddWeather ==
    { WeatherNone, WeatherEmptyDict, WeatherNonDict, WeatherNoHourly, WeatherHourlyNonDict,
      Weather(NonList, List(<<PyNum(10)>>), List(<<>>), List(<<>>)),
      Weather(List(<<IsoTime(2, 8, FALSE)>>), NonList, List(<<PyNum(0)>>), List(<<PyNum(2)>>)),
      Weather(List(<<IsoTime(2, 7, FALSE)>>), NonList, List(<<PyNum(0)>>), List(<<PyNum(2)>>)),
      Weather(List(<<IsoTime(2, 8, FALSE)>>), List(<<PyNum(10)>>), MissingArray, NonList),
      Weather(List(<<IsoTime(2, 8, FALSE)>>), List(<<PyNum(10)>>), MissingArray, MissingArray),
      Weather(List(<<IsoTime(2, 8, FALSE)>>), MissingArray, List(<<PyNum(0)>>), List(<<PyNum(2)>>)),
      Weather(List(<<IsoTime(2, 8, FALSE)>>), List(<<PyText>>), List(<<PyNum(0)>>), List(<<PyNum(2)>>)),
      Weather(List(<<IsoTime(2, 8, FALSE), IsoTime(2, 9, FALSE)>>), List(<<PyNum(10), PyNaN>>),
              List(<<PyNum(0)>>), List(<<PyNum(2)>>)) }

ExampleSeries ==
    LET \* One day of ten hourly samples, 08:00 to 17:00 of day 2, mostly partly
        \* cloudy.
        ExampleTemperatures == <<10, 12, 14, 16, 18, 20, 20, 22, 24, 26>>
    IN
    SeriesOf([i \in 1..Len(ExampleTemperatures) |->
                 Sample(IsoTime(2, 7 + i, FALSE), PyNum(ExampleTemperatures[i]),
                        PyNum(5 * (i % 3)), PyNum(IF i \in {4, 9} THEN 3 ELSE 2))],
             "none")

Call_get_todays_weather_summary ==
    /\ op = "idle"
    /\ \E weather_data \in Series \cup OddWeather \cup {ExampleSeries}, today \in Days :
         /\ op' = "get_todays_weather_summary"
         /\ args' = [weather_data |-> weather_data, today |-> today]
         /\ ret' = LET summary == get_todays_weather_summary(weather_data, today)
                    IN  IF summary.kind = "raised" THEN RetRaised(summary.exc)
                        ELSE RetValue(summary)
         /\ net' = <<>>
         /\ source' = "n/a"
    /\ UNCHANGED <<prev, default_messages>>

NextWeather == Call_get_todays_weather_summary

SpecWeather == Init /\ [][NextWeather]_vars

\* the input is a series: a dict whose hourly holds four lists
IsSeries(weather_data) ==
    /\ weather_data.w = "dict"
    /\ weather_data.hourly = "dict"
    /\ weather_data.time.a = "list"
    /\ weather_data.temperature_2m.a = "list"
    /\ weather_data.precipitation_probability.a = "list"
    /\ weather_data.weathercode.a = "list"

\* entry i of an array, absent (None) past its end
At(array, i) == IF i <= Len(array.items) THEN array.items[i] ELSE PyNone

\* the samples of a series: its arrays zipped by index
Rows(weather_data) ==
    [i \in 1..Len(weather_data.time.items) |->
        Sample(weather_data.time.items[i], At(weather_data.temperature_2m, i),
               At(weather_data.precipitation_probability, i),
               At(weather_data.weathercode, i))]

\* a sample of the reference date with an hour in [8,17]
InWindow(row, today) ==
    row.time.t = "iso" /\ row.time.date = today /\ row.time.hour \in 8..17

WindowRows(weather_data, today) ==
    SelectSeq(Rows(weather_data), LAMBDA row : InWindow(row, today))

\* C9: the summary of a series is the summary of its samples of the
\* reference date with an hour in [8,17] alone; so two series that agree on
\* these samples get the same summary, whatever their other samples are.
C9_OnlyWindowSamplesCount ==
    (op = "get_todays_weather_summary" /\ IsSeries(args.weather_data)) =>
        ret.val = get_todays_weather_summary(
                      SeriesOf(WindowRows(args.weather_data, args.today), "none"),
                      args.today)

\* a forecast from a series holding samples at the hours 8 and 17 and
\* samples outside the window
C9_Witness ==
    /\ op = "get_todays_weather_summary"
    /\ IsSeries(args.weather_data)
    /\ ret.val.kind = "forecast"
    /\ LET rows == Rows(args.weather_data)
           window == WindowRows(args.weather_data, args.today)
       IN  /\ Len(window) < Len(rows)
           /\ \E i \in 1..Len(window) : window[i].time.hour = 8
           /\ \E i \in 1..Len(window) : window[i].time.hour = 17

\* the codes present in the window, in array order, each with its hour
WindowCodes(weather_data, today) ==
    SelectSeq(WindowRows(weather_data, today), LAMBDA row : row.code.t # "none")

Occurrences(rows, c) == Cardinality({i \in 1..Len(rows) : rows[i].code.n = c})
MostFrequent(rows) ==
    {rows[i].code.n : i \in {i \in 1..Len(rows) :
        \A j \in 1..Len(rows) : Occurrences(rows, rows[j].code.n)
                                    <= Occurrences(rows, rows[i].code.n)}}
FirstIndex(rows, c) == CHOOSE i \in 1..Len(rows) :
    rows[i].code.n = c /\ \A j \in 1..(i - 1) : rows[j].code.n # c
EarliestHour(rows, c) == CHOOSE h \in {rows[i].time.hour : i \in {i \in 1..Len(rows) : rows[i].code.n = c}} :
    \A i \in 1..Len(rows) : rows[i].code.n = c => h <= rows[i].time.hour

\* the samples come in the order of their hours
Ascending(rows) == \A i, j \in 1..Len(rows) : i < j => rows[i].time.hour < rows[j].time.hour

\* C10 as claimed: the description is that of a most frequent code, of the
\* one that comes first in time among several.
C10_TieByTime ==
    (op = "get_todays_weather_summary" /\ IsSeries(args.weather_data)
        /\ ret.val.kind = "forecast"
        /\ WindowCodes(args.weather_data, args.today) # <<>>) =>
        LET rows == WindowCodes(args.weather_data, args.today)
        IN  \E c \in MostFrequent(rows) :
              /\ ret.val.description = Describe(c)
              /\ \A d \in MostFrequent(rows) : EarliestHour(rows, c) <= EarliestHour(rows, d)

\* C10 as amended: the description is that of the most frequent code present
\* in the window, of the one that comes first in the order of the arrays
\* among several, which is the first in time where the samples come in the
\* order of their hours; a code that is not in the table reads "unknown
\* weather".
C10_ModeDescription ==
    (op = "get_todays_weather_summary" /\ IsSeries(args.weather_data)
        /\ ret.val.kind = "forecast"
        /\ WindowCodes(args.weather_data, args.today) # <<>>) =>
        LET rows == WindowCodes(args.weather_data, args.today)
            c == CHOOSE c \in MostFrequent(rows) :
                    \A d \in MostFrequent(rows) : FirstIndex(rows, c) <= FirstIndex(rows, d)
        IN  /\ c \in DOMAIN WMO_CODES => ret.val.description = WMO_CODES[c]
            /\ c \notin DOMAIN WMO_CODES => ret.val.description = "unknown weather"
            /\ Ascending(rows) =>
                  \A d \in MostFrequent(rows) : EarliestHour(rows, c) <= EarliestHour(rows, d)

\* two codes tie and the later one in time comes first in the arrays
C10_Witness ==
    /\ op = "get_todays_weather_summary"
    /\ IsSeries(args.weather_data)
    /\ ret.val.kind = "forecast"
    /\ LET rows == WindowCodes(args.weather_data, args.today)
       IN  /\ Len(rows) = 2
           /\ rows[1].code.n # rows[2].code.n
           /\ rows[1].time.hour > rows[2].time.hour
           /\ ret.val.description = Describe(rows[1].code.n)

-----------------------------------------------------------------------------
(* The figures of the summary.                                             *)

\* the temperatures present in the window, in array order
WindowTemperatures(weather_data, today) ==
    SelectSeq(WindowRows(weather_data, today), LAMBDA row : row.temp.t # "none")

RECURSIVE Total(_)
Total(rows) == IF rows = <<>> THEN 0 ELSE Head(rows).temp.n + Total(Tail(rows))

Abs(x) == IF x < 0 THEN -x ELSE x

\* C11: the average temperature of a forecast is an integer nearest to the
\* mean of the temperatures present in the window (absent ones are in
\* neither the sum nor the count), and the ten temperatures 10..26 of the
\* hours 08..17 give 18.
C11_MeanRoundedToNearest ==
    (op = "get_todays_weather_summary" /\ IsSeries(args.weather_data)
        /\ ret.val.kind = "forecast") =>
        LET temps == WindowTemperatures(args.weather_data, args.today)
        IN  /\ temps # <<>>
            /\ 2 * Abs(ret.val.avg_temp * Len(temps) - Total(temps)) <= Len(temps)
            /\ (args.weather_data = ExampleSeries /\ args.today = 2) =>
                  ret.val.avg_temp = 18

\* the forecast of the ten temperatures
C11_Witness ==
    /\ op = "get_todays_weather_summary"
    /\ args.weather_data = ExampleSeries
    /\ args.today = 2
    /\ ret.val = Forecast("Partly cloudy", 18, 10)

\* the input holds a list of times
HasTimes(weather_data) ==
    weather_data.w = "dict" /\ weather_data.hourly = "dict" /\ weather_data.time.a = "list"

\* the places of the time array whose sample survives the filter
Survivors(weather_data, today) ==
    IF HasTimes(weather_data)
    THEN {i \in 1..Len(weather_data.time.items) :
            LET time == weather_data.time.items[i]
            IN  time.t = "iso" /\ time.date = today /\ time.hour \in 8..17}
    ELSE {}

\* C12: when no sample survives the filter of date and hour, the result is
\* the fallback and no forecast.
C12_NoSurvivorNoForecast ==
    (op = "get_todays_weather_summary" /\ Survivors(args.weather_data, args.today) = {}) =>
        ret.val = Fallback

\* the fallback for a series with a sample at noon of another day and a
\* sample of today outside the hours
C12_Witness ==
    /\ op = "get_todays_weather_summary"
    /\ IsSeries(args.weather_data)
    /\ Survivors(args.weather_data, args.today) = {}
    /\ LET times == args.weather_data.time.items
       IN  /\ \E i \in 1..Len(times) :
                times[i].t = "iso" /\ times[i].date # args.today /\ times[i].hour \in 8..17
           /\ \E i \in 1..Len(times) :
                times[i].t = "iso" /\ times[i].date = args.today /\ times[i].hour \notin 8..17
    /\ ret.val = Fallback

\* C13: whatever the input (no data, data that is no dict, an hourly that is
\* missing or no dict, arrays that are no lists or hold no numbers, times
\* that are no strings), the function returns the forecast sentence or the
\* fallback string and raises nothing.
C13_SummaryIsTotal ==
    op = "get_todays_weather_summary" =>
        /\ ret.kind = "value"
        /\ ret.val.kind \in {"forecast", "fallback"}

\* the fallback for an input on which a statement of the try block raises
C13_Witness ==
    /\ op = "get_todays_weather_summary"
    /\ args.weather_data.w = "dict"
    /\ SummaryTry(args.weather_data, args.today).kind = "raised"
    /\ ret = RetValue(Fallback)

-----------------------------------------------------------------------------
(* The trails' names.                                                      *)

\* word occurs in name at offset k, letters compared without their case
OccursAt(name, word, k) ==
    /\ k + Len(word) <= Len(name)
    /\ \A j \in 1..Len(word) : LowerChar(name[k + j]) = word[j]

\* name holds one of the five words, in whatever case
HoldsKeyword(name) ==
    \E word \in {<<"t","r","a","i","l">>, <<"h","i","k","i","n","g">>, <<"h","i","k","e">>,
                 <<"l","o","o","p">>, <<"t","r","a","c","k">>} :
        \E k \in 0..Len(name) : OccursAt(name, word, k)

\* the text names among the items, in encounter order
RECURSIVE TextNames(_)
TextNames(items) ==
    IF items = <<>> THEN <<>>
    ELSE LET e == Head(items)
         IN  (IF e.e = "dict" /\ e.tags.g = "dict" /\ e.tags.name.m = "text"
                    /\ e.tags.name.s # <<>>
              THEN <<e.tags.name.s>> ELSE <<>>) \o TextNames(Tail(items))

Least(a, b) == IF a < b THEN a ELSE b

\* C14: every trail returned has a title holding one of the five keywords
\* in whatever case, and the tags <<hiking, trail>>; a name holding no
\* keyword is in no title and takes no place under the cap of 20: the
\* number of trails is that of the distinct names holding a keyword, up to 20.
C14_OnlyKeywordNames ==
    (op = "get_trails_canada" /\ net # <<>> /\ net[Len(net)].resp.k = "json"
        /\ ret.kind = "value") =>
        LET names == TextNames(ReceivedItems)
            holding == SelectSeq(names, HoldsKeyword)
        IN  /\ \A i \in 1..Len(ret.val.data) :
                  /\ HoldsKeyword(ret.val.data[i].title)
                  /\ ret.val.data[i].tags = <<"hiking", "trail">>
            /\ \A i \in 1..Len(names) :
                  ~HoldsKeyword(names[i]) =>
                      \A j \in 1..Len(ret.val.data) : ret.val.data[j].title # names[i]
            /\ Len(ret.val.data) = Least(20, Len(Distinct(holding)))

\* 20 trails out of a payload in which names without a keyword come between
\* the 20 names holding one
C14_Witness ==
    /\ op = "get_trails_canada"
    /\ net # <<>>
    /\ net[Len(net)].resp.k = "json"
    /\ ret.kind = "value"
    /\ Len(ret.val.data) = 20
    /\ LET names == TextNames(ReceivedItems)
       IN  /\ Len(Distinct(SelectSeq(names, HoldsKeyword))) = 20
           /\ \E i, j \in 1..Len(names) :
                 i < j /\ ~HoldsKeyword(names[i]) /\ names[j] = ret.val.data[20].title
           /\ \E i \in 1..20 : \E k \in 0..3 :
                 OccursAt(ret.val.data[i].title, <<"h","i","k","i","n","g">>, k)
                    /\ ret.val.data[i].title[k + 1] = "H"

-----------------------------------------------------------------------------
(* Arrays of unequal length.                                               *)

\* an array of the series ends before its time array does
ShortArray(weather_data) ==
    \E array \in {weather_data.temperature_2m, weather_data.precipitation_probability,
                  weather_data.weathercode} :
        Len(array.items) < Len(weather_data.time.items)

\* C15: an array shorter than the time array counts as holding nothing at
\* the places past its end: the summary is that of the series whose short
\* arrays are filled up with absent values, the other fields of those
\* samples still taking part.
C15_ShortArrayIsAbsent ==
    (op = "get_todays_weather_summary" /\ IsSeries(args.weather_data)
        /\ ShortArray(args.weather_data)) =>
        /\ ret.kind = "value"
        /\ ret.val = get_todays_weather_summary(
                         SeriesOf(Rows(args.weather_data), "none"), args.today)

\* a forecast whose last sample in the window lacks its weather code alone:
\* its temperature and its precipitation probability are in the figures
C15_Witness ==
    /\ op = "get_todays_weather_summary"
    /\ IsSeries(args.weather_data)
    /\ LET data == args.weather_data
           n == Len(data.time.items)
       IN  /\ n \in Survivors(data, args.today)
           /\ Len(data.weathercode.items) = n - 1
           /\ Len(data.temperature_2m.items) = n
           /\ Len(data.precipitation_probability.items) = n
           /\ data.temperature_2m.items[n].t = "num"
           /\ data.precipitation_probability.items[n].t = "num"
           /\ ret.kind = "value"
           /\ ret.val.kind = "forecast"
           /\ ret.val.max_precip = data.precipitation_probability.items[n].n
           /\ ret.val.max_precip > 0

-----------------------------------------------------------------------------
(* The key and the Community Map (specification Spec).                     *)

\* C16: without an API key the park fetch of a location the rule sends to
\* the Community Map is still made, by get_parks and by main's park search:
\* the first mirror is asked.
C16_KeyBlocksOnlyRegistry ==
    (op \in {"get_parks", "main.get_parks", "main.no_key"}
        /\ NoKey(args.api_key)
        /\ select_source(args.country, args.state_code) = "CommunityMap"
        /\ args.latitude # PyNone /\ args.longitude # PyNone) =>
        /\ net # <<>>
        /\ net[1].method = "POST"
        /\ net[1].url = overpass_servers[1]

-----------------------------------------------------------------------------
(* The parks of a payload (specification Spec).                            *)

\* the coordinates of an element: its center's, its own without a center
PlaceOf(element) ==
    IF element.center.c = "dict"
    THEN [lat |-> element.center.lat, lon |-> element.center.lon]
    ELSE [lat |-> element.lat, lon |-> element.lon]

\* an element with a name and with coordinates
NamedAndPlaced(element) ==
    /\ element.e = "dict"
    /\ element.tags.g = "dict"
    /\ element.tags.name.m = "text" /\ element.tags.name.s # <<>>
    /\ element.center.c \in {"dict", "missing"}
    /\ PlaceOf(element).lat.t # "none" /\ PlaceOf(element).lon.t # "none"

\* C17: every element of the payload that has a name and coordinates (its
\* center's, or its own when it has no center) is a Park of the result with
\* these coordinates, whatever the other elements of the payload are: they
\* are dropped, and the element's Park stays.
C17_NamedElementsBecomeParks ==
    (op = "get_parks_canada" /\ net # <<>> /\ net[Len(net)].resp.k = "json"
        /\ net[Len(net)].resp.body.shape = "object"
        /\ net[Len(net)].resp.body.elements.e = "list") =>
        \A i \in 1..Len(ReceivedItems) :
            NamedAndPlaced(ReceivedItems[i]) =>
                /\ ret.kind = "value"
                /\ \E j \in 1..Len(ret.val.data) :
                      /\ ret.val.data[j].fullName = ReceivedItems[i].tags.name.s
                      /\ ret.val.data[j].latitude = str(PlaceOf(ReceivedItems[i]).lat)
                      /\ ret.val.data[j].longitude = str(PlaceOf(ReceivedItems[i]).lon)

\* an element with a name: a value of tags.name that is neither missing,
\* null nor empty
HasName(element) ==
    /\ element.tags.g = "dict"
    /\ element.tags.name.m \notin {"missing", "null"}
    /\ ~(element.tags.name.m = "text" /\ element.tags.name.s = <<>>)

\* an element the normalisation cannot read: its tags are no object, or it
\* has a name and a center that is no object, or it has coordinates and a
\* name that is no string
Unreadable(element) ==
    /\ element.e = "dict"
    /\ \/ element.tags.g = "nondict"
       \/ HasName(element) /\ element.center.c = "nondict"
       \/ /\ HasName(element) /\ element.tags.name.m # "text"
          /\ element.center.c # "nondict"
          /\ PlaceOf(element).lat.t # "none" /\ PlaceOf(element).lon.t # "none"

\* the name and the coordinates of a Park
Placed(name, latitude, longitude) ==
    [fullName |-> name, latitude |-> latitude, longitude |-> longitude]

\* C17 as amended: when no element of the payload is unreadable, the Parks
\* are the elements that have a name and coordinates, in encounter order,
\* each with its center's coordinates or, without a center, its own; the
\* other elements are dropped.  One unreadable element makes the whole
\* result absent.
C17_ParksOfReadablePayload ==
    (op = "get_parks_canada" /\ net # <<>> /\ net[Len(net)].resp.k = "json"
        /\ net[Len(net)].resp.body.shape = "object"
        /\ net[Len(net)].resp.body.elements.e = "list") =>
        LET kept == SelectSeq(ReceivedItems, NamedAndPlaced)
        IN  IF \E i \in 1..Len(ReceivedItems) : Unreadable(ReceivedItems[i])
            THEN ret = RetNone
            ELSE IF kept = <<>> THEN ret = RetNone
            ELSE /\ ret.kind = "value"
                 /\ [j \in 1..Len(ret.val.data) |->
                        Placed(ret.val.data[j].fullName, ret.val.data[j].latitude,
                               ret.val.data[j].longitude)]
                    = [i \in 1..Len(kept) |->
                        Placed(kept[i].tags.name.s, str(PlaceOf(kept[i]).lat),
                               str(PlaceOf(kept[i]).lon))]

\* one Park from a center next to one from the element's own lat/lon
C17_Witness ==
    /\ op = "get_parks_canada"
    /\ net # <<>>
    /\ net[Len(net)].resp.k = "json"
    /\ net[Len(net)].resp.body.shape = "object"
    /\ Len(ReceivedItems) = 2
    /\ ReceivedItems[1].center.c = "dict"
    /\ ReceivedItems[2].center.c = "missing"
    /\ ret.kind = "value"
    /\ Len(ret.val.data) = 2
    /\ ret.val.data[1].latitude = str(ReceivedItems[1].center.lat)
    /\ ret.val.data[2].latitude = str(ReceivedItems[2].lat)

-----------------------------------------------------------------------------
(* Times that do not parse (specification SpecWeather).                    *)

\* the time array holds a string that is no timestamp
HasBadTime(weather_data) ==
    /\ HasTimes(weather_data)
    /\ \E i \in 1..Len(weather_data.time.items) : weather_data.time.items[i].t = "bad"

\* C18 as claimed: a series holding a time string that does not parse gets
\* the fallback string and no forecast.
C18_BadTimeGivesFallback ==
    (op = "get_todays_weather_summary" /\ HasBadTime(args.weather_data)) =>
        ret = RetValue(Fallback)

\* C18 as amended: a sample whose time string does not parse is passed over
\* and the summary is that of the series without it: a forecast where the
\* other samples give one.
C18_BadTimeIsPassedOver ==
    (op = "get_todays_weather_summary" /\ IsSeries(args.weather_data)
        /\ HasBadTime(args.weather_data)) =>
        LET others == SelectSeq(Rows(args.weather_data), LAMBDA row : row.time.t # "bad")
        IN  ret = RetValue(get_todays_weather_summary(SeriesOf(others, "none"),
                                                      args.today))

\* a forecast from a series whose first time string does not parse
C18_Witness ==
    /\ op = "get_todays_weather_summary"
    /\ IsSeries(args.weather_data)
    /\ args.weather_data.time.items # <<>>
    /\ args.weather_data.time.items[1].t = "bad"
    /\ ret.kind = "value"
    /\ ret.val.kind = "forecast"

-----------------------------------------------------------------------------
(* The conversation with the model (main.py, query_model).                 *)

\* A message of the history; a content is a text (a tuple of characters),
\* the three fixed sentences being texts of one piece.
Message(role, content) == [role |-> role, content |-> content]

NoQuestion == <<"I apologize, but I didn't receive a valid question.">>
NoResponse == <<"I apologize, but I couldn't generate a response. Please try again.">>
NoConnection ==
    <<"I apologize, but I'm having trouble connecting to the AI model. Please try again later.">>

\* What ollama.chat does: it raises, or it returns a response with a
\* content ('' when the response has no message or no content).
ChatRaises == [k |-> "raise", content |-> <<>>]
ChatAnswers(content) == [k |-> "answer", content |-> content]

\* s.strip(): s without the blanks at its ends
RECURSIVE LStrip(_)
LStrip(s) == IF s # <<>> /\ Head(s) = " " THEN LStrip(Tail(s)) ELSE s
RECURSIVE RStrip(_)
RStrip(s) == IF s # <<>> /\ s[Len(s)] = " " THEN RStrip(SubSeq(s, 1, Len(s) - 1)) ELSE s
strip(s) == RStrip(LStrip(s))

\* any(d.get('role') == 'system' for d in messages)
HasSystem(messages) == \E i \in 1..Len(messages) : messages[i].role = "system"

\* query_model on the list `messages` (the default list when the argument
\* is omitted): the response, the list as the call leaves it, the list as
\* ollama.chat received it, and whether the call appended to the list.
query_model(system_prompt, user_prompt, messages, chat) ==
    IF user_prompt = <<>>
    THEN [response |-> NoQuestion, messages |-> messages, sent |-> <<>>, appended |-> FALSE]
    ELSE LET with_user == Append(messages, Message("user", user_prompt))
             sent == IF system_prompt # <<>> /\ ~HasSystem(with_user)
                     THEN <<Message("system", system_prompt)>> \o with_user
                     ELSE with_user
         IN  IF chat.k = "raise"
             THEN [response |-> NoConnection, messages |-> sent, sent |-> sent,
                   appended |-> TRUE]
             ELSE LET content == strip(chat.content)
                      response_content == IF content = <<>> THEN NoResponse ELSE content
                  IN  [response |-> response_content,
                       messages |-> Append(sent, Message("assistant", response_content)),
                       sent |-> sent, appended |-> TRUE]

\* the longest list a call is made on
MaxMessages == 6

SystemPrompts == {<<>>, <<"S", "1">>, <<"S", "2">>}
UserPrompts == {<<>>, <<"U", "1">>, <<"U", "2">>}
Chats == {ChatRaises, ChatAnswers(<<" ", "n", "o", " ">>), ChatAnswers(<<" ">>)}

\* lists a caller makes for a call
CallerLists ==
    { <<>>,
      <<Message("system", <<"S", "0">>), Message("user", <<"U", "0">>),
        Message("assistant", <<"o", "k">>)>> }

\* The state a call of query_model leaves: `shared` says that the list
\* returned is the default list itself.  The early return hands back
\* `messages or []`, a new list when the list is empty.
Answer(system_prompt, user_prompt, how, before, chat, shared) ==
    LET out == query_model(system_prompt, user_prompt, before, chat)
    IN  /\ op' = "query_model"
        /\ args' = [system_prompt |-> system_prompt, user_prompt |-> user_prompt,
                    messages |-> how, before |-> before, chat |-> chat]
        /\ ret' = RetValue([response |-> out.response, messages |-> out.messages,
                            sent |-> out.sent,
                            shared |-> shared /\ (out.appended \/ before # <<>>)])
        /\ default_messages' = IF shared THEN out.messages ELSE default_messages
        /\ UNCHANGED <<net, source, prev>>

\* query_model(system_prompt, user_prompt): the call is made on the default list
Call_query_model_default ==
    /\ op \in {"idle", "query_model"}
    /\ Len(default_messages) + 3 <= MaxMessages
    /\ \E system_prompt \in SystemPrompts, user_prompt \in UserPrompts, chat \in Chats :
         Answer(system_prompt, user_prompt, "omitted", default_messages, chat, TRUE)

\* query_model(system_prompt, user_prompt, messages) on a list of the
\* caller's, or on None (a new list), as the first call
Call_query_model_list ==
    /\ op = "idle"
    /\ \E system_prompt \in SystemPrompts, user_prompt \in UserPrompts, chat \in Chats,
          messages \in CallerLists, how \in {"list", "None"} :
         /\ how = "None" => messages = <<>>
         /\ Answer(system_prompt, user_prompt, how, messages, chat, FALSE)

\* query_model(system_prompt, user_prompt, message_history) on the list the
\* call before returned (main, lines 287 and 300)
Call_query_model_history ==
    /\ op = "query_model"
    /\ Len(ret.val.messages) + 3 <= MaxMessages
    /\ \E system_prompt \in SystemPrompts, user_prompt \in UserPrompts, chat \in Chats :
         Answer(system_prompt, user_prompt, "returned", ret.val.messages, chat,
                ret.val.shared)

NextChat ==
    \/ Call_query_model_default
    \/ Call_query_model_list
    \/ Call_query_model_history

SpecChat == Init /\ [][NextChat]_vars

\* C19: a call that leaves `messages` out starts from an empty history: what
\* it sends to the model is its own system prompt, if it has one, and its
\* own user prompt, what it returns is these and the assistant's response,
\* and nothing of an earlier call is in either.
C19_OmittedMessagesStartEmpty ==
    (op = "query_model" /\ args.messages = "omitted" /\ args.user_prompt # <<>>) =>
        LET own == (IF args.system_prompt # <<>>
                    THEN <<Message("system", args.system_prompt)>> ELSE <<>>)
                   \o <<Message("user", args.user_prompt)>>
        IN  /\ ret.val.sent = own
            /\ ret.val.messages =
                  IF args.chat.k = "raise" THEN own
                  ELSE Append(own, Message("assistant", ret.val.response))

-----------------------------------------------------------------------------
(* Forecast or fallback (specification SpecWeather).                       *)

\* the places of the surviving samples that hold a temperature
TemperaturePlaces(weather_data, today) ==
    {i \in Survivors(weather_data, today) :
        /\ i <= Len(weather_data.temperature_2m.items)
        /\ weather_data.temperature_2m.items[i].t # "none"}

-----------------------------------------------------------------------------
(* The location resolver (location.py) and main's first step.              *)

us_state_to_abbrev ==
    LET \* the full names of the states with their two-letter codes
        StateTable ==
            << <<"Alabama", "AL">>, <<"Alaska", "AK">>, <<"Arizona", "AZ">>,
               <<"Arkansas", "AR">>, <<"California", "CA">>, <<"Colorado", "CO">>,
               <<"Connecticut", "CT">>, <<"Delaware", "DE">>, <<"Florida", "FL">>,
               <<"Georgia", "GA">>, <<"Hawaii", "HI">>, <<"Idaho", "ID">>,
               <<"Illinois", "IL">>, <<"Indiana", "IN">>, <<"Iowa", "IA">>,
               <<"Kansas", "KS">>, <<"Kentucky", "KY">>, <<"Louisiana", "LA">>,
               <<"Maine", "ME">>, <<"Maryland", "MD">>, <<"Massachusetts", "MA">>,
               <<"Michigan", "MI">>, <<"Minnesota", "MN">>, <<"Mississippi", "MS">>,
               <<"Missouri", "MO">>, <<"Montana", "MT">>, <<"Nebraska", "NE">>,
               <<"Nevada", "NV">>, <<"New Hampshire", "NH">>, <<"New Jersey", "NJ">>,
               <<"New Mexico", "NM">>, <<"New York", "NY">>,
               <<"North Carolina", "NC">>, <<"North Dakota", "ND">>,
               <<"Ohio", "OH">>, <<"Oklahoma", "OK">>, <<"Oregon", "OR">>,
               <<"Pennsylvania", "PA">>, <<"Rhode Island", "RI">>,
               <<"South Carolina", "SC">>, <<"South Dakota", "SD">>,
               <<"Tennessee", "TN">>, <<"Texas", "TX">>, <<"Utah", "UT">>,
               <<"Vermont", "VT">>, <<"Virginia", "VA">>, <<"Washington", "WA">>,
               <<"West Virginia", "WV">>, <<"Wisconsin", "WI">>, <<"Wyoming", "WY">>,
               <<"District of Columbia", "DC">> >>
    IN
    [name \in {StateTable[i][1] : i \in DOMAIN StateTable} |->
        StateTable[CHOOSE i \in DOMAIN StateTable : StateTable[i][1] = name][2]]

\* What geocoder.ip('me') gives: an exception, or an object g with g.ok,
\* g.latlng (None or a list), g.state and g.country (None or a string).
NoLatLng == [l |-> "none", items |-> <<>>]
LatLng(items) == [l |-> "list", items |-> items]
GeocoderRaises ==
    [raises |-> TRUE, ok |-> FALSE, latlng |-> NoLatLng, state |-> NONE, country |-> NONE]
Geocoded(ok, latlng, state, country) ==
    [raises |-> FALSE, ok |-> ok, latlng |-> latlng, state |-> state, country |-> country]

\* the tuple the resolver returns
Location(latitude, longitude, state_abbrev, country) ==
    [latitude |-> latitude, longitude |-> longitude, state_abbrev |-> state_abbrev,
     country |-> country]
NoLocation == Location(PyNone, PyNone, NONE, NONE)

\* us_state_to_abbrev.get(state, state) if state else None
StateAbbrev(state) ==
    IF state \in {NONE, ""} THEN NONE
    ELSE IF state \in DOMAIN us_state_to_abbrev THEN us_state_to_abbrev[state]
    ELSE state

\* get_current_location() for the geocoder's answer g.  A comparison of a
\* coordinate that is None or a string raises TypeError, which the except
\* clause turns into the same tuple of Nones as a pair out of range.
get_current_location(g) ==
    IF g.raises THEN NoLocation
    ELSE IF ~g.ok \/ g.latlng.l = "none" \/ Len(g.latlng.items) < 2 THEN NoLocation
    ELSE LET latitude == g.latlng.items[1]
             longitude == g.latlng.items[2]
         IN  IF latitude.t \in {"none", "str"} \/ longitude.t \in {"none", "str"}
             THEN NoLocation
             ELSE IF ~Between(-90, latitude, 90) \/ ~Between(-180, longitude, 180)
             THEN NoLocation
             ELSE Location(latitude, longitude, StateAbbrev(g.state), g.country)

\* main, lines 143-151: `if not latitude or not longitude` ("undetected"),
\* else the weather fetch for the pair.
main_get_weather(location, env) ==
    IF ~Truthy(location.latitude) \/ ~Truthy(location.longitude)
    THEN [op |-> "main.no_location", out |-> Outcome(RetNone, <<>>, "n/a")]
    ELSE [op |-> "main.get_weather",
          out |-> get_weather(location.latitude, location.longitude, env)]

Geocodings ==
    LET \* the geocoder's answers
        GeoLatitudes == {PyNum(-91), PyNum(-90), PyNum(0), PyNum(45), PyNum(90), PyNum(91),
                         PyNone, PyText, PyNaN}
        GeoLongitudes == {PyNum(-181), PyNum(-180), PyNum(0), PyNum(-80), PyNum(180), PyNum(181)}
        GeoLatLngs ==
            {NoLatLng, LatLng(<<>>), LatLng(<<PyNum(45)>>)}
                \cup {LatLng(<<latitude, longitude>>) :
                        latitude \in GeoLatitudes, longitude \in GeoLongitudes}
        GeoStates == {NONE, "", "California", "Ontario"}
        GeoCountries == {NONE, "US", "CA"}
    IN
    {GeocoderRaises}
        \cup {Geocoded(ok, latlng, state, country) :
                ok \in BOOLEAN, latlng \in GeoLatLngs, state \in GeoStates,
                country \in GeoCountries}

\* get_current_location() alone
Call_get_current_location ==
    /\ op = "idle"
    /\ \E g \in Geocodings :
         /\ op' = "get_current_location"
         /\ args' = [g |-> g]
         /\ ret' = RetValue(get_current_location(g))
         /\ net' = <<>>
         /\ source' = "n/a"
    /\ UNCHANGED <<prev, default_messages>>

\* main's first step: the location, then the weather fetch or the return
Main_get_location ==
    /\ op = "idle"
    /\ \E g \in Geocodings, env \in WeatherEnvs :
         LET location == get_current_location(g)
             step == main_get_weather(location, env)
         IN  Record(step.op, [g |-> g, location |-> location], step.out)
    /\ UNCHANGED <<prev, default_messages>>

NextLocation ==
    \/ Call_get_current_location
    \/ Main_get_location

SpecLocation == Init /\ [][NextLocation]_vars

\* the resolver's tuple is a pair of coordinates within the ranges
Resolved(location) ==
    /\ location.latitude.t = "num" /\ location.longitude.t = "num"
    /\ -90 <= location.latitude.n /\ location.latitude.n <= 90
    /\ -180 <= location.longitude.n /\ location.longitude.n <= 180

\* C21: main takes the location for undetected only when the resolver gave
\* its tuple of Nones; for every pair the resolver gives, a latitude or a
\* longitude of 0 included, main goes on to the weather fetch.
C21_UndetectedOnlyWithoutLocation ==
    (op \in {"main.no_location", "main.get_weather"}) =>
        /\ op = "main.no_location" => args.location = NoLocation
        /\ Resolved(args.location) =>
              /\ op = "main.get_weather"
              /\ net # <<>>
              /\ net[1].url = OpenMeteoUrl

====
